---- MODULE Spec2Model ----
(***************************************************************************)
(* A model of queenbee's discussion engine and its session worker:         *)
(*   src/src/queenbee/workers/manager.py  (SpecialistWorker, agent_worker, *)
(*                                         update_rolling_summary)         *)
(*   src/src/queenbee/db/models.py        (TaskRepository, TaskStatus)     *)
(*   src/src/queenbee/db/connection.py    (DatabaseManager.get_cursor)     *)
(*                                                                         *)
(* Threads of one run: the main thread (SpecialistWorker.run ->            *)
(* process_task -> _run_collaborative_discussion), one agent_worker per    *)
(* deliberator and the update_rolling_summary thread.  One action is one   *)
(* critical section (with discussion_lock) or one unlocked access of the   *)
(* shared state, together with the thread-local code around it.            *)
(*                                                                         *)
(* A text (user input, response, contribution content) is modelled by the  *)
(* set of relevance keywords that occur in it.                             *)
(*                                                                         *)
(* Storage calls of the main thread can commit, raise, or be dropped by    *)
(* get_cursor; the snapshots that the threads of a run publish always      *)
(* commit.  A model call whose scripted answers are used up does not       *)
(* return.  Threads that a join gave up on keep running until the next run *)
(* starts; a new run has its own shared state, so they are dropped then.   *)
(***************************************************************************)
EXTENDS Integers, Sequences, FiniteSets, TLC

\* ------------------------------------------------------------------ bounds
NumAgents == 2      \* how many of the six deliberator threads take part
MaxFaults == 2      \* storage calls that fail during one behaviour
NumTasks == 1       \* tasks created for the session
MaxRounds == 1      \* the max_rounds field of a task description
MaxTime == 5        \* the clock of the rate-limit model runs from 0 to MaxTime
NumSessions == 2    \* sessions known to the WorkerManager
MaxProcs == 3       \* worker processes started during one behaviour
WorkerTasks == 2    \* tasks of the session whose worker is followed to the end
DwellRounds == 2    \* max_rounds of a task that is long enough for the idle dwell
MaxLen == 4         \* entries of a discussion that the admission policy is asked about
MaxFill == 4        \* search results between the opening and the last entries of a long discussion

\* ------------------------------------------------------- program constants
TicksPerRound_Eleven == 10 + 1
TicksPerRound    == 10
IdleDwell        == 15
MaxPerAgent      == 3
EarlyLimit       == 6
MidLimit_Thirteen == 12 + 1
MidLimit         == 12

\* --------------------------------------------------------------- the roles
AgentOrder == <<"Divergent", "Convergent", "Critical",
                "Pragmatist", "UserProxy", "Quantifier">>
Deliberators == {AgentOrder[i] : i \in 1..Len(AgentOrder)}
Agents == {AgentOrder[i] : i \in 1..NumAgents}
WebSearcher == "WebSearcher"
Names == Agents \cup {WebSearcher}

core_agents == {"Divergent", "Convergent", "Critical"}
support_agents == {"Pragmatist", "UserProxy", "Quantifier"}

relevance_keywords ==
  [a \in Deliberators |->
     CASE a = "Divergent"  -> {"options", "alternatives", "possibilities", "approaches",
                               "ideas", "creative", "different ways", "what if"}
       [] a = "Convergent" -> {"decide", "choose", "recommend", "best", "solution",
                               "action", "implement", "plan", "synthesis"}
       [] a = "Critical"   -> {"risks", "problems", "concerns", "issues", "validate",
                               "verify", "wrong", "fail", "security", "flaws"}
       [] a = "Pragmatist" -> {"practical", "feasible", "implement", "resources", "cost",
                               "timeline", "realistic", "constraints"}
       [] a = "UserProxy"  -> {"user", "experience", "usability", "customer", "audience",
                               "accessible", "interface", "ux"}
       [] OTHER            -> {"metrics", "numbers", "measure", "data", "performance",
                               "benchmark", "statistics", "quantify"}]

\* ------------------------------------------------------------ input domains
\* the text of a model response that is a contribution or a search query
Contents == {{}, {"data"}, {"metrics"}}
\* what a model call returns: a contribution text, a [PASS] marker, or a
\* search request (already rewritten to __WEB_SEARCH_REQUEST__<query>)
\* A response is a search request, begins with "[PASS" ("pass"), begins with
\* "PASS" without the bracket and is 10 characters or longer ("bare"), is
\* shorter than 10 characters once the tool syntax is removed ("tool"), or
\* is any other text; "error" is the None that _get_async_agent_response
\* returns when the model call raised or answered nothing (lines 1080-1083)
Responses == [kind : {"text", "pass", "search", "bare", "tool", "error"}, text : Contents]
NoResponse == [kind |-> "none", text |-> {}]
NoRequest == [agent |-> "nobody", query |-> {}]

\* -------------------------------------------------------- admission policy
Last3_All(d) == d

\* discussion[-3:] (lines 692, 752)
Last3(d) == SubSeq(d, IF Len(d) > 3 THEN Len(d) - 2 ELSE 1, Len(d))

AuthorsOf(d) == {d[i].agent : i \in 1..Len(d)}

CountBy(d, a) == Cardinality({i \in 1..Len(d) : d[i].agent = a})

is_agent_expertise_relevant(agent_name, user_input, d) ==
  LET keywords == relevance_keywords[agent_name]
      question_relevance == keywords \cap user_input # {}
      recent_discussion == UNION {Last3(d)[i].content : i \in 1..Len(Last3(d))}
      discussion_relevance == IF d # <<>> THEN keywords \cap recent_discussion # {}
                                          ELSE FALSE
  IN question_relevance \/ discussion_relevance

is_contribution_needed(agent_name, d) ==
  IF d = <<>> THEN TRUE
  ELSE IF agent_name \in core_agents /\ ~(core_agents \subseteq AuthorsOf(d)) THEN TRUE
  ELSE IF agent_name \in support_agents
       THEN IF Len(d) < 2 THEN FALSE ELSE agent_name \notin AuthorsOf(d)
  ELSE TRUE

should_agent_contribute_Repeats(agent_name, d, user_input, contribution_count) ==
  IF contribution_count = 0
  THEN IF Len(d) < 2 THEN TRUE
       ELSE is_agent_expertise_relevant(agent_name, user_input, d)
  ELSE IF Len(d) >= 3 /\ CountBy(Last3(d), agent_name) >= 2 THEN FALSE
  ELSE IF contribution_count >= MaxPerAgent THEN FALSE
  ELSE IF Len(d) < EarlyLimit THEN is_contribution_needed(agent_name, d)
  ELSE IF Len(d) < MidLimit
       THEN IF contribution_count >= 2 THEN FALSE
            ELSE is_agent_expertise_relevant(agent_name, user_input, d)
  ELSE FALSE

\* lines 658-715: _should_agent_contribute
should_agent_contribute(agent_name, d, user_input, contribution_count) ==
  IF contribution_count = 0
  THEN IF Len(d) < 2 THEN TRUE
       ELSE is_agent_expertise_relevant(agent_name, user_input, d)
  ELSE IF d # <<>> /\ d[Len(d)].agent = agent_name THEN FALSE
  ELSE IF Len(d) >= 3 /\ CountBy(Last3(d), agent_name) >= 2 THEN FALSE
  ELSE IF contribution_count >= MaxPerAgent THEN FALSE
  ELSE IF Len(d) < EarlyLimit THEN is_contribution_needed(agent_name, d)
  ELSE IF Len(d) < MidLimit
       THEN IF contribution_count >= 2 THEN FALSE
            ELSE is_agent_expertise_relevant(agent_name, user_input, d)
  ELSE FALSE

\* --------------------------------------------------------------- RateLimiter
\* the threads that call acquire(), the requests_per_minute of the limiter,
\* the last instant of its clock and the length of one step of the clock
NumCallers == 2
RequestsPerMinute == 2
MaxClock == 60
ClockStep == 15
Callers == 1..NumCallers

\* openrouter.py line 64: elapsed * requests_per_minute / 60.0 tokens are
\* added; tokens are counted in sixtieths, so that a second adds
\* requests_per_minute of them
SecondsPerMinute == 60
OneToken == SecondsPerMinute

\* line 31
max_tokens == RequestsPerMinute * OneToken

Min(x, y) == IF x <= y THEN x ELSE y

\* lines 59-66: the bucket after the refill for the time since last_update
Refilled(level, since, instant) ==
  Min(max_tokens, level + (instant - since) * RequestsPerMinute)

\* ------------------------------------------------------------------- state
VARIABLES
  \* TaskStore rows (table tasks)
  status, result, description,
  \* SpecialistWorker.run / process_task / _run_collaborative_discussion
  \* (the main thread): position, locals, and the storage faults so far
  mpc, pending_tasks, task, e, faults, late_calls, task_id,
  iterations, all_idle_count, all_idle, results,
  \* the state shared by the threads of one run
  discussion_lock, discussion, stop_event, agent_status, rolling_summary,
  web_search_queue, agent_pass_count, stats,
  \* agent_worker threads: position and locals
  pc, current_discussion, contribution_count, response, next_request, stub,
  \* update_rolling_summary thread: position and locals
  spc, summary_snapshot,
  \* OpenRouterClient and its RateLimiter, the provider_rate_limits row, the
  \* clock, and the reset instant of the provider's last rate-limit error
  client, cooldown_until, rate_limit_reset, now, provider_reset,
  \* RateLimiter.tokens (in sixtieths of a token) and last_update, and where
  \* each thread that calls acquire() is
  tokens, last_update, acquire_pc,
  \* WorkerManager.workers, the processes it started, the last call
  workers, processes, call

store_vars  == <<status, result, description>>
main_vars   == <<mpc, pending_tasks, task, e, faults, late_calls, task_id,
                 iterations, all_idle_count, all_idle, results>>
shared_vars == <<discussion_lock, discussion, stop_event, agent_status, rolling_summary,
                 web_search_queue, agent_pass_count, stats>>
agent_vars  == <<pc, current_discussion, contribution_count, response, next_request,
                 stub>>
summ_vars   == <<spc, summary_snapshot>>
bucket_vars == <<tokens, last_update, acquire_pc>>
limit_vars  == <<client, cooldown_until, rate_limit_reset, now, provider_reset, bucket_vars>>
manager_vars == <<workers, processes, call>>
aux_vars == <<limit_vars, manager_vars>>
engine_vars == <<store_vars, main_vars, shared_vars, agent_vars, summ_vars>>
vars == <<engine_vars, aux_vars>>

\* the rows of the tasks table, numbered in the order of created_at
Tasks == DOMAIN status
NoTask == 0

Sessions == 1..NumSessions
Pids == 1..MaxProcs
NoProcess == 0

PENDING == "pending"
IN_PROGRESS == "in_progress"
COMPLETED == "completed"
FAILED == "failed"

\* what one call of a TaskRepository method can do (get_cursor): commit,
\* roll back and raise, or swallow a psycopg.OperationalError and return
\* without having written anything
StorageOutcomes == IF faults > 0 THEN {"ok", "raise", "lost"} ELSE {"ok"}

FaultsAfter(o) == IF o = "ok" THEN faults ELSE faults - 1

NoResult == [status |-> "null"]

user_input == IF task_id \in Tasks THEN description[task_id].input ELSE {}

\* the snapshot document that the threads publish while the run goes on
IntermediateResult(d, summary, st) ==
  [status |-> "in_progress", contributions |-> d,
   rolling_summary |-> summary, agent_status |-> st]

\* self.task_repo.set_task_result(task_id, json.dumps(intermediate_result))
\* from a thread of the run
Publish(d, summary, st) ==
  result' = [result EXCEPT ![task_id] = IntermediateResult(d, summary, st)]

\* the locals of _run_collaborative_discussion from which the final document
\* is built (lines 582-623); summarized is the number of entries that were
\* handed to the Summarizer
NoResults ==
  [last_rolling |-> 0, total_messages |-> 0, summarized |-> 0, summary |-> "",
   total_contributions |-> 0, contributions |-> <<>>,
   contributions_per_agent |-> [a \in Agents |-> 0],
   passes_per_agent |-> [a \in Agents |-> 0], web_searches_total |-> 0]

\* the document of lines 615-623 as json.dumps writes it (line 70)
FinalResult(r) ==
  [status |-> "final",
   total_contributions |-> r.total_contributions,
   contributions |-> r.contributions,
   rolling_summary |-> r.last_rolling,
   summary |-> r.summary,
   statistics |-> [total_messages |-> r.total_messages,
                   contributions_per_agent |-> r.contributions_per_agent,
                   passes_per_agent |-> r.passes_per_agent,
                   web_searches_total |-> r.web_searches_total]]

\* line 79
ErrorResult(msg) == [status |-> "error", error |-> msg]

NoStats == [agent_contributions |-> [a \in Agents |-> 0],
            agent_passes |-> [a \in Agents |-> 0],
            web_searches |-> 0]

\* ---------------------------------------------------------------- inputs
\* A scenario fixes what the program is given: the question and max_rounds
\* of the task description, what the language-model stub answers to each
\* deliberator (one set of admissible responses per call, in AgentOrder; a
\* deliberator whose answers are used up gets no answer any more), how many
\* storage calls may fail, and whether a model call or a search can outlast
\* the join timeout.
Reply(kind, text) == [kind |-> kind, text |-> text]

Texts == {Reply("text", {})}
Passes == {Reply("pass", {})}
Searches == {Reply("search", {})}
AnyAnswer == Texts \cup Passes \cup Searches
Errors == {Reply("error", {})}

Scenario(input, max_rounds, nfaults, late, answers) ==
  [input |-> input, max_rounds |-> max_rounds, faults |-> nfaults, late |-> late,
   answers |-> answers, tasks |-> NumTasks]

\* storage faults; no model call is answered
ScFaults == Scenario({}, MaxRounds, MaxFaults, TRUE, << <<>>, <<>> >>)
\* one call each, answered in any way, possibly after the join timeout
ScAny == Scenario({}, 0, 0, TRUE, << <<AnyAnswer>>, <<AnyAnswer>> >>)
\* two deliberators that contribute in turn
ScTurns == Scenario({"options"}, 0, 0, FALSE, << <<Texts, Texts, Texts, Texts>>, <<Texts, Texts>> >>)
\* both ask for a search at once, then contribute
ScSearch == Scenario({}, 0, 0, FALSE, << <<Searches, Texts>>, <<Searches, Texts>> >>)
\* a search result between two contributions of the same deliberator
ScBetween == Scenario({}, 0, 0, FALSE, << <<Texts, Texts>>, <<Searches>> >>)
\* everybody passes once the discussion has two entries
ScPass == Scenario({"options"}, MaxRounds, 0, FALSE, << <<Searches, Searches, Passes>>, <<Passes>> >>)

\* one deliberator asks for two searches while the other's search runs
ScQueue == Scenario({}, 0, 0, FALSE,
                    << <<Searches>>,
                       <<{Reply("search", {"data"})}, {Reply("search", {"metrics"})}>> >>)

\* every answer is a [PASS]
ScAllPass == Scenario({}, MaxRounds, 0, FALSE, << <<Passes, Passes>>, <<Passes, Passes>> >>)

\* answers that say PASS without the bracket, or hold tool syntax only
ScWords == Scenario({}, 0, 0, FALSE,
                    << <<{Reply("bare", {}), Reply("tool", {})}>>,
                       <<{Reply("bare", {}), Reply("tool", {})}, {Reply("tool", {})}>> >>)

\* a search and a contribution, then nobody is admitted any more
ScDwell == Scenario({}, DwellRounds, 0, FALSE, << <<Searches, Texts>>, <<>> >>)

\* a search that finds an older request queued, while the other deliberator
\* handles an answer of tool syntax
ScHeld == Scenario({}, 0, 0, FALSE,
                   << <<{Reply("search", {"data"})}, {Reply("tool", {})}>>,
                      <<{Reply("search", {"data"})}, {Reply("search", {"metrics"})}>> >>)

\* model calls that raise, before and after a contribution
ScRaise == Scenario({}, 0, 0, FALSE, << <<Errors, Texts>>, <<Texts, Errors, Errors>> >>)

Scenarios == {ScFaults, ScAny, ScTurns, ScSearch, ScBetween, ScPass, ScQueue, ScAllPass,
              ScDwell, ScWords, ScHeld, ScRaise}

\* several tasks and storage faults; no model call is answered
ScWorker == [Scenario({}, MaxRounds, MaxFaults, TRUE, << <<>>, <<>> >>) EXCEPT
               !.tasks = WorkerTasks]

StubOf(sc) ==
  [a \in Agents |->
     LET i == CHOOSE k \in 1..Len(AgentOrder) : AgentOrder[k] = a
     IN IF i <= Len(sc.answers) THEN sc.answers[i] ELSE <<>>]

InitWith(sc) ==
  /\ description = [t \in 1..sc.tasks |-> [input |-> sc.input, max_rounds |-> sc.max_rounds]]
  /\ faults = sc.faults
  /\ late_calls = sc.late
  /\ stub = StubOf(sc)
  /\ status = [t \in 1..sc.tasks |-> PENDING]
  /\ result = [t \in 1..sc.tasks |-> NoResult]
  /\ mpc = "poll"
  /\ pending_tasks = <<>>
  /\ task = NoTask
  /\ e = "none"
  /\ task_id = NoTask
  /\ iterations = 0
  /\ all_idle_count = 0
  /\ all_idle = FALSE
  /\ results = NoResults
  /\ discussion_lock = "free"
  /\ discussion = <<>>
  /\ stop_event = FALSE
  /\ agent_status = [n \in Names |-> "absent"]
  /\ rolling_summary = [content |-> 0, last_update |-> 0]
  /\ web_search_queue = <<>>
  /\ agent_pass_count = [a \in Agents |-> 0]
  /\ stats = NoStats
  /\ pc = [a \in Agents |-> "unborn"]
  /\ current_discussion = [a \in Agents |-> <<>>]
  /\ contribution_count = [a \in Agents |-> 0]
  /\ response = [a \in Agents |-> NoResponse]
  /\ next_request = [a \in Agents |-> NoRequest]
  /\ spc = "unborn"
  /\ summary_snapshot = <<>>
  \* no client is constructed, no row in provider_rate_limits
  /\ client = "none"
  /\ cooldown_until = 0
  /\ rate_limit_reset = 0
  /\ now = 0
  /\ provider_reset = 0
  /\ tokens = max_tokens
  /\ last_update = 0
  /\ acquire_pc = [c \in Callers |-> "out"]
  \* WorkerManager.__init__ (line 1338)
  /\ workers = [s \in Sessions |-> NoProcess]
  /\ processes = [p \in Pids |-> [session_id |-> 0, state |-> "unused"]]
  /\ call = [op |-> "init", session_id |-> 0]

Init == \E sc \in Scenarios : InitWith(sc)

\* ------------------------------------------------------------ agent_worker
Free == discussion_lock = "free"

\* lines 197-199
AgentStart(a) ==
  /\ pc[a] = "start" /\ Free
  /\ agent_status' = [agent_status EXCEPT ![a] = "idle"]
  /\ pc' = [pc EXCEPT ![a] = "loop"]
  /\ UNCHANGED <<aux_vars, store_vars, main_vars, summ_vars, discussion_lock, discussion, stop_event,
                 rolling_summary, web_search_queue, agent_pass_count, stats,
                 current_discussion, contribution_count, response, next_request, stub>>

\* lines 201-214: loop test, snapshot under the lock, admission decision
AgentLoop(a) ==
  /\ pc[a] = "loop"
  /\ IF stop_event
     THEN /\ pc' = [pc EXCEPT ![a] = "done"]
          /\ UNCHANGED current_discussion
     ELSE /\ Free
          /\ current_discussion' = [current_discussion EXCEPT ![a] = discussion]
          /\ pc' = [pc EXCEPT ![a] =
                      IF should_agent_contribute(a, discussion, user_input,
                                                 contribution_count[a])
                      THEN "mark" ELSE "idle"]
  /\ UNCHANGED <<aux_vars, store_vars, main_vars, summ_vars, shared_vars,
                 contribution_count, response, next_request, stub>>

\* lines 218-235
AgentMarkThinking(a) ==
  /\ pc[a] = "mark" /\ Free
  /\ agent_status' = [agent_status EXCEPT ![a] = "thinking"]
  /\ Publish(discussion, rolling_summary.content, agent_status')
  /\ pc' = [pc EXCEPT ![a] = "call"]
  /\ UNCHANGED <<aux_vars, status, description, main_vars, summ_vars, discussion_lock, discussion,
                 stop_event, rolling_summary, web_search_queue, agent_pass_count, stats,
                 current_discussion, contribution_count, response, next_request, stub>>

\* where the worker goes with a response: lines 249, 394, 405, 458
\* lines 249, 394 and 405: the tests on the response
Route_SearchContributes(r) ==
  CASE r.kind \in {"search", "text", "bare"} -> "contributing"
    [] r.kind = "tool"                       -> "tool_idle"
    [] OTHER                                 -> "pass"

Route(r) ==
  CASE r.kind = "search"           -> "chk"
    [] r.kind \in {"text", "bare"} -> "contributing"
    [] r.kind = "tool"             -> "tool_idle"
    [] OTHER                       -> "pass"

\* lines 240-246: the model call returns what the stub holds for it
AgentCallReturn(a) ==
  /\ pc[a] = "call" /\ stub[a] # <<>>
  /\ \E r \in Responses :
       /\ r \in Head(stub[a])
       /\ response' = [response EXCEPT ![a] = r]
       /\ pc' = [pc EXCEPT ![a] = Route(r)]
  /\ stub' = [stub EXCEPT ![a] = Tail(@)]
  /\ current_discussion' = [current_discussion EXCEPT ![a] = <<>>]
  /\ UNCHANGED <<aux_vars, store_vars, main_vars, summ_vars, shared_vars,
                 contribution_count, next_request>>

\* lines 252-256: is the WebSearcher busy?
AgentCheckBusy(a) ==
  /\ pc[a] = "chk" /\ Free
  /\ pc' = [pc EXCEPT ![a] = IF agent_status[WebSearcher] = "searching"
                             THEN "enq" ELSE "begin"]
  /\ UNCHANGED <<aux_vars, store_vars, main_vars, summ_vars, shared_vars,
                 current_discussion, contribution_count, response, next_request, stub>>

Enqueue_Front(q, r) == <<r>> \o q

\* line 259: web_search_queue.append
Enqueue(q, r) == Append(q, r)

\* lines 258-262
AgentEnqueue(a) ==
  /\ pc[a] = "enq" /\ Free
  /\ web_search_queue' = Enqueue(web_search_queue,
                                 [agent |-> a, query |-> response[a].text])
  /\ pc' = [pc EXCEPT ![a] = "notice"]
  /\ UNCHANGED <<aux_vars, store_vars, main_vars, summ_vars, discussion_lock, discussion, stop_event,
                 agent_status, rolling_summary, agent_pass_count, stats,
                 current_discussion, contribution_count, response, next_request, stub>>

\* entries of a discussion are appended (list.append, lines 275, 326, 378, 431)
AppendContribution_Prepend(d, c) == <<c>> \o d

AppendContribution(d, c) == Append(d, c)

Hidden_Shown(author, text, d) ==
  [agent |-> author, content |-> text, contribution_num |-> Len(d) + 1, hidden |-> FALSE]

\* lines 267-273, 319-325, 366-372: an entry marked "hidden": True
Hidden(author, text, d) ==
  [agent |-> author, content |-> text, contribution_num |-> Len(d) + 1, hidden |-> TRUE]

\* lines 266-278: the waiting notice; continue
AgentNotice(a) ==
  /\ pc[a] = "notice" /\ Free
  /\ discussion' = AppendContribution(discussion, Hidden(a, response[a].text, discussion))
  /\ agent_status' = [agent_status EXCEPT ![a] = "waiting"]
  /\ pc' = [pc EXCEPT ![a] = "loop"]
  /\ UNCHANGED <<aux_vars, store_vars, main_vars, summ_vars, discussion_lock, stop_event,
                 rolling_summary, web_search_queue, agent_pass_count, stats,
                 current_discussion, contribution_count, response, next_request, stub>>

\* lines 283-304: mark the WebSearcher searching; the search call starts
AgentBeginSearch(a) ==
  /\ pc[a] = "begin" /\ Free
  /\ agent_status' = [agent_status EXCEPT ![WebSearcher] = "searching"]
  /\ stats' = [stats EXCEPT !.web_searches = @ + 1]
  /\ Publish(discussion, rolling_summary.content, agent_status')
  /\ pc' = [pc EXCEPT ![a] = "search"]
  /\ UNCHANGED <<aux_vars, status, description, main_vars, summ_vars, discussion_lock, discussion,
                 stop_event, rolling_summary, web_search_queue, agent_pass_count,
                 current_discussion, contribution_count, response, next_request, stub>>

\* lines 310-326, and 380-388 when nothing is queued: the search returns and
\* its result is appended.  With a queued request (lines 328-359) the worker
\* keeps the lock and starts the queued search.
AgentSearchDone(a) ==
  /\ pc[a] = "search" /\ Free
  /\ LET d1 == AppendContribution(discussion,
                                  Hidden(WebSearcher, response[a].text, discussion))
     IN /\ discussion' = d1
        /\ IF web_search_queue # <<>>
           THEN /\ next_request' = [next_request EXCEPT ![a] = Head(web_search_queue)]
                /\ web_search_queue' = Tail(web_search_queue)
                /\ agent_status' = [agent_status EXCEPT
                                      ![WebSearcher] = "searching",
                                      ![Head(web_search_queue).agent] = "thinking"]
                /\ stats' = [stats EXCEPT !.web_searches = @ + 1]
                /\ discussion_lock' = a
                /\ pc' = [pc EXCEPT ![a] = "qsearch"]
           ELSE /\ agent_status' = [agent_status EXCEPT ![WebSearcher] = "idle"]
                /\ pc' = [pc EXCEPT ![a] = "unl_idle"]
                /\ UNCHANGED <<web_search_queue, stats, next_request, discussion_lock>>
        /\ Publish(d1, rolling_summary.content, agent_status')
  /\ UNCHANGED <<aux_vars, status, description, main_vars, summ_vars, stop_event, rolling_summary,
                 agent_pass_count, current_discussion, contribution_count, response, stub>>

\* lines 362-388: the queued search returns while the lock is still held
AgentQueuedSearchDone(a) ==
  /\ pc[a] = "qsearch" /\ discussion_lock = a
  /\ discussion' = AppendContribution(discussion,
                      Hidden(WebSearcher, next_request[a].query, discussion))
  /\ agent_status' = [agent_status EXCEPT ![WebSearcher] = "idle",
                                          ![next_request[a].agent] = "idle"]
  /\ Publish(discussion', rolling_summary.content, agent_status')
  /\ discussion_lock' = "free"
  /\ pc' = [pc EXCEPT ![a] = "unl_idle"]
  /\ UNCHANGED <<aux_vars, status, description, main_vars, summ_vars, stop_event, rolling_summary,
                 web_search_queue, agent_pass_count, stats,
                 current_discussion, contribution_count, response, next_request, stub>>

\* line 391: written without the lock; continue
AgentIdleAfterSearch(a) ==
  /\ pc[a] = "unl_idle"
  /\ agent_status' = [agent_status EXCEPT ![a] = "idle"]
  /\ pc' = [pc EXCEPT ![a] = "loop"]
  /\ UNCHANGED <<aux_vars, store_vars, main_vars, summ_vars, discussion_lock, discussion, stop_event,
                 rolling_summary, web_search_queue, agent_pass_count, stats,
                 current_discussion, contribution_count, response, next_request, stub>>

\* lines 405-408: nothing is left of the response; idle (without the lock)
AgentToolIdle(a) ==
  /\ pc[a] = "tool_idle"
  /\ agent_status' = [agent_status EXCEPT ![a] = "idle"]
  /\ pc' = [pc EXCEPT ![a] = "tool_pass"]
  /\ UNCHANGED <<aux_vars, store_vars, main_vars, summ_vars, discussion_lock, discussion, stop_event,
                 rolling_summary, web_search_queue, agent_pass_count, stats,
                 current_discussion, contribution_count, response, next_request, stub>>

\* lines 410-413: the pass is recorded in the statistics; continue
AgentToolPass(a) ==
  /\ pc[a] = "tool_pass" /\ Free
  /\ stats' = [stats EXCEPT !.agent_passes[a] = @ + 1]
  /\ pc' = [pc EXCEPT ![a] = "loop"]
  /\ UNCHANGED <<aux_vars, store_vars, main_vars, summ_vars, discussion_lock, discussion, stop_event,
                 agent_status, rolling_summary, web_search_queue, agent_pass_count,
                 current_discussion, contribution_count, response, next_request, stub>>

\* lines 415-424: response time recorded, status "contributing"
AgentContributing(a) ==
  /\ pc[a] = "contributing" /\ Free
  /\ agent_status' = [agent_status EXCEPT ![a] = "contributing"]
  /\ pc' = [pc EXCEPT ![a] = "append"]
  /\ UNCHANGED <<aux_vars, store_vars, main_vars, summ_vars, discussion_lock, discussion, stop_event,
                 rolling_summary, web_search_queue, agent_pass_count, stats,
                 current_discussion, contribution_count, response, next_request, stub>>

\* lines 426-431: the contribution dict (it has no "hidden" key)
Contribution(a, text, count) ==
  [agent |-> a, content |-> text, contribution_num |-> count + 1, hidden |-> FALSE]

\* line 438
CountContribution(st, a) ==
  [st EXCEPT !.agent_contributions[a] = @ + 1]

NextCount_Stuck(n) == n

\* line 451
NextCount(n) == n + 1

\* lines 426-452: append, count, publish
AgentAppend(a) ==
  /\ pc[a] = "append" /\ Free
  /\ discussion' = AppendContribution(discussion,
                      Contribution(a, response[a].text, contribution_count[a]))
  /\ stats' = CountContribution(stats, a)
  /\ Publish(discussion', rolling_summary.content, agent_status)
  /\ contribution_count' = [contribution_count EXCEPT ![a] = NextCount(@)]
  /\ pc' = [pc EXCEPT ![a] = "reset"]
  /\ UNCHANGED <<aux_vars, status, description, main_vars, summ_vars, discussion_lock, stop_event,
                 agent_status, rolling_summary, web_search_queue, agent_pass_count,
                 current_discussion, response, next_request, stub>>

\* lines 454-457
AgentResetPass(a) ==
  /\ pc[a] = "reset" /\ Free
  /\ agent_pass_count' = [agent_pass_count EXCEPT ![a] = 0]
  /\ pc' = [pc EXCEPT ![a] = "idle"]
  /\ UNCHANGED <<aux_vars, store_vars, main_vars, summ_vars, discussion_lock, discussion, stop_event,
                 agent_status, rolling_summary, web_search_queue, stats,
                 current_discussion, contribution_count, response, next_request, stub>>

\* lines 467-473: every started deliberator has a pass count >= 1 and the
\* discussion has at least two entries
AllPassed(st, passes, d) ==
  /\ \A b \in Agents : st[b] # "absent" => passes[b] >= 1
  /\ Len(d) >= 2

\* lines 458-476: a pass; when all have passed, set stop_event and break
AgentPass_Uncounted(a) ==
  /\ pc[a] = "pass" /\ Free
  /\ stats' = [stats EXCEPT !.agent_passes[a] = @ + 1]
  /\ pc' = [pc EXCEPT ![a] = "idle"]
  /\ UNCHANGED <<aux_vars, store_vars, main_vars, summ_vars, discussion_lock, discussion,
                 agent_status, rolling_summary, web_search_queue, stop_event, agent_pass_count,
                 current_discussion, contribution_count, response, next_request, stub>>

\* lines 458-476: the pass branch
AgentPass(a) ==
  /\ pc[a] = "pass" /\ Free
  /\ stats' = [stats EXCEPT !.agent_passes[a] = @ + 1]
  /\ agent_pass_count' = [agent_pass_count EXCEPT ![a] = @ + 1]
  /\ IF AllPassed(agent_status, agent_pass_count', discussion)
     THEN /\ stop_event' = TRUE
          /\ pc' = [pc EXCEPT ![a] = "done"]
     ELSE /\ pc' = [pc EXCEPT ![a] = "idle"]
          /\ UNCHANGED stop_event
  /\ UNCHANGED <<aux_vars, store_vars, main_vars, summ_vars, discussion_lock, discussion,
                 agent_status, rolling_summary, web_search_queue,
                 current_discussion, contribution_count, response, next_request, stub>>

\* lines 478-494: back to idle, publish, sleep(2)
AgentIdle(a) ==
  /\ pc[a] = "idle" /\ Free
  /\ agent_status' = [agent_status EXCEPT ![a] = "idle"]
  /\ Publish(discussion, rolling_summary.content, agent_status')
  /\ pc' = [pc EXCEPT ![a] = "loop"]
  /\ UNCHANGED <<aux_vars, status, description, main_vars, summ_vars, discussion_lock, discussion,
                 stop_event, rolling_summary, web_search_queue, agent_pass_count, stats,
                 current_discussion, contribution_count, response, next_request, stub>>

Agent(a) ==
  \/ AgentStart(a) \/ AgentLoop(a) \/ AgentMarkThinking(a) \/ AgentCallReturn(a)
  \/ AgentCheckBusy(a) \/ AgentEnqueue(a) \/ AgentNotice(a) \/ AgentBeginSearch(a)
  \/ AgentSearchDone(a) \/ AgentQueuedSearchDone(a) \/ AgentIdleAfterSearch(a)
  \/ AgentContributing(a) \/ AgentAppend(a) \/ AgentResetPass(a) \/ AgentPass(a)
  \/ AgentIdle(a) \/ AgentToolIdle(a) \/ AgentToolPass(a)

\* -------------------------------------------------- update_rolling_summary
\* line 135: the loop test; the thread then sleeps summary_interval seconds
AfterLoopTest == IF stop_event THEN "done" ELSE "sleep"

\* lines 136-152: wake up, snapshot under the lock, call the Summarizer when
\* there are contributions and their number has changed; otherwise the loop
\* test follows at once
SummaryWake ==
  /\ spc = "sleep" /\ Free
  /\ IF Len(discussion) > 0 /\ Len(discussion) # rolling_summary.last_update
     THEN /\ summary_snapshot' = discussion
          /\ spc' = "call"
     ELSE /\ summary_snapshot' = <<>>
          /\ spc' = AfterLoopTest
  /\ UNCHANGED <<aux_vars, store_vars, main_vars, shared_vars, agent_vars>>

SummaryUpdate_CurrentCount ==
  /\ spc = "call" /\ Free
  /\ rolling_summary' = [content |-> Len(summary_snapshot),
                         last_update |-> Len(discussion)]
  /\ Publish(discussion, rolling_summary'.content, agent_status)
  /\ summary_snapshot' = <<>>
  /\ spc' = AfterLoopTest
  /\ UNCHANGED <<aux_vars, status, description, main_vars, agent_vars,
                 discussion_lock, discussion, stop_event, agent_status,
                 web_search_queue, agent_pass_count, stats>>

\* lines 154-169: the Summarizer answered; summary and count are stored and
\* a snapshot is published
SummaryUpdate ==
  /\ spc = "call" /\ Free
  /\ rolling_summary' = [content |-> Len(summary_snapshot),
                         last_update |-> Len(summary_snapshot)]
  /\ Publish(discussion, rolling_summary'.content, agent_status)
  /\ summary_snapshot' = <<>>
  /\ spc' = AfterLoopTest
  /\ UNCHANGED <<aux_vars, status, description, main_vars, agent_vars,
                 discussion_lock, discussion, stop_event, agent_status,
                 web_search_queue, agent_pass_count, stats>>

SummaryError_Ends ==
  /\ spc = "call"
  /\ summary_snapshot' = <<>>
  /\ spc' = "done"
  /\ UNCHANGED <<aux_vars, store_vars, main_vars, shared_vars, agent_vars>>

\* lines 170-171: the Summarizer raised; logged, the loop goes on
SummaryError ==
  /\ spc = "call"
  /\ summary_snapshot' = <<>>
  /\ spc' = AfterLoopTest
  /\ UNCHANGED <<aux_vars, store_vars, main_vars, shared_vars, agent_vars>>

Summary == SummaryWake \/ SummaryUpdate \/ SummaryError

\* ---------------------------------------------- SpecialistWorker.run (main)
\* ORDER BY created_at: tasks are created in the order of their ids
PendingOf_Descending(st) ==
  LET RECURSIVE Collect(_)
      Collect(t) == IF t \notin DOMAIN st THEN <<>>
                    ELSE IF st[t] = PENDING THEN Collect(t + 1) \o <<t>>
                    ELSE Collect(t + 1)
  IN Collect(1)

PendingOf(st) ==
  LET RECURSIVE Collect(_)
      Collect(t) == IF t \notin DOMAIN st THEN <<>>
                    ELSE IF st[t] = PENDING THEN <<t>> \o Collect(t + 1)
                    ELSE Collect(t + 1)
  IN Collect(1)

\* the for loop of run (lines 1291-1292): the next task of the list, or back
\* to polling
NextTask(list) ==
  IF list # <<>>
  THEN /\ task' = Head(list) /\ pending_tasks' = Tail(list) /\ mpc' = "begin"
  ELSE /\ task' = NoTask /\ pending_tasks' = <<>> /\ mpc' = "poll"

\* lines 1280-1301: get_pending_tasks; sleep(2) when there is none, sleep(5)
\* when the query raised
WorkerPoll ==
  /\ mpc = "poll"
  /\ \E o \in StorageOutcomes :
       /\ faults' = FaultsAfter(o)
       /\ IF o = "ok" THEN NextTask(PendingOf(status))
          ELSE UNCHANGED <<task, pending_tasks, mpc>>
  /\ e' = "none"
  /\ UNCHANGED <<aux_vars, store_vars, shared_vars, agent_vars, summ_vars, late_calls, task_id,
                 iterations, all_idle_count, all_idle, results>>

\* lines 51-64: process_task marks the task IN_PROGRESS
TaskBegin ==
  /\ mpc = "begin"
  /\ \E o \in StorageOutcomes :
       /\ faults' = FaultsAfter(o)
       /\ status' = IF o = "ok" THEN [status EXCEPT ![task] = IN_PROGRESS] ELSE status
       /\ mpc' = IF o = "raise" THEN "h_status" ELSE "run"
       /\ e' = IF o = "raise" THEN "status" ELSE e
  /\ UNCHANGED <<aux_vars, result, description, shared_vars, agent_vars, summ_vars,
                 pending_tasks, task, late_calls, task_id,
                 iterations, all_idle_count, all_idle, results>>

\* lines 96-526: fresh shared state, the summary thread and the agent threads
\* are started
RunStart ==
  /\ mpc = "run"
  /\ task_id' = task
  /\ discussion_lock' = "free"
  /\ discussion' = <<>>
  /\ stop_event' = FALSE
  /\ agent_status' = [n \in Names |-> "absent"]
  /\ rolling_summary' = [content |-> 0, last_update |-> 0]
  /\ web_search_queue' = <<>>
  /\ agent_pass_count' = [a \in Agents |-> 0]
  /\ stats' = NoStats
  /\ pc' = [a \in Agents |-> "start"]
  /\ current_discussion' = [a \in Agents |-> <<>>]
  /\ contribution_count' = [a \in Agents |-> 0]
  /\ response' = [a \in Agents |-> NoResponse]
  /\ next_request' = [a \in Agents |-> NoRequest]
  /\ spc' = "sleep"
  /\ summary_snapshot' = <<>>
  /\ iterations' = 0
  /\ all_idle_count' = 0
  /\ all_idle' = FALSE
  /\ results' = NoResults
  /\ mpc' = "initial"
  /\ UNCHANGED <<aux_vars, store_vars, pending_tasks, task, e, faults, late_calls, stub>>

\* lines 528-541: the initial snapshot, with "contributions": []
RunInitial ==
  /\ mpc = "initial" /\ Free
  /\ \E o \in StorageOutcomes :
       /\ faults' = FaultsAfter(o)
       /\ result' = IF o = "ok"
                    THEN [result EXCEPT ![task_id] =
                            IntermediateResult(<<>>, 0, agent_status)]
                    ELSE result
       /\ mpc' = IF o = "raise" THEN "h_status" ELSE "monitor"
       /\ e' = IF o = "raise" THEN "run" ELSE e
  /\ UNCHANGED <<aux_vars, status, description, shared_vars, agent_vars, summ_vars,
                 pending_tasks, task, late_calls, task_id,
                 iterations, all_idle_count, all_idle, results>>

AllIdle_Some(st) == \E n \in Names : st[n] = "idle"

\* line 553-554: every entry of agent_status is "idle" (and there is one)
AllIdle(st) ==
  /\ \E n \in Names : st[n] # "absent"
  /\ \A n \in Names : st[n] \in {"absent", "idle"}

\* lines 547-559: one sample of the monitor loop, or the hard cap
MonitorSample ==
  /\ mpc = "monitor"
  /\ IF iterations < description[task_id].max_rounds * TicksPerRound
     THEN /\ Free
          /\ iterations' = iterations + 1
          /\ all_idle' = AllIdle(agent_status)
          /\ mpc' = "eval"
     ELSE /\ mpc' = "stop"
          /\ UNCHANGED <<iterations, all_idle>>
  /\ UNCHANGED <<aux_vars, store_vars, shared_vars, agent_vars, summ_vars,
                 pending_tasks, task, e, faults, late_calls, task_id, all_idle_count, results>>

\* lines 561-569: the idle-dwell counter
MonitorEval ==
  /\ mpc = "eval"
  /\ IF all_idle /\ Len(discussion) > 0
     THEN /\ all_idle_count' = all_idle_count + 1
          /\ mpc' = IF all_idle_count' >= IdleDwell THEN "stop" ELSE "monitor"
     ELSE /\ all_idle_count' = 0
          /\ mpc' = "monitor"
  /\ UNCHANGED <<aux_vars, store_vars, shared_vars, agent_vars, summ_vars,
                 pending_tasks, task, e, faults, late_calls, task_id, iterations, all_idle, results>>

\* line 572
RunStop ==
  /\ mpc = "stop"
  /\ stop_event' = TRUE
  /\ mpc' = "join"
  /\ UNCHANGED <<aux_vars, store_vars, agent_vars, summ_vars, discussion_lock, discussion,
                 agent_status, rolling_summary, web_search_queue, agent_pass_count, stats,
                 pending_tasks, task, e, faults, late_calls, task_id,
                 iterations, all_idle_count, all_idle, results>>

\* a thread that join(timeout=5) can give up on: it is inside a model call
\* or a web search, or it waits for the lock that a searching worker holds
Late(a) == late_calls /\ (pc[a] \in {"call", "search", "qsearch"} \/ discussion_lock # "free")

\* lines 574-579: join every agent thread (5 s each) and the summary thread
\* (3 s, less than its sleep); threads that are still alive are left behind
RunJoin ==
  /\ mpc = "join"
  /\ \A a \in Agents : pc[a] = "done" \/ Late(a)
  /\ mpc' = "stats"
  /\ UNCHANGED <<aux_vars, store_vars, shared_vars, agent_vars, summ_vars,
                 pending_tasks, task, e, faults, late_calls, task_id,
                 iterations, all_idle_count, all_idle, results>>

\* lines 581-607: the last rolling summary (under the lock), total_messages
\* and web_searches_total (copied here, line 600)
RunFinalStats ==
  /\ mpc = "stats" /\ Free
  /\ results' = [results EXCEPT !.last_rolling = rolling_summary.content,
                                !.total_messages = Len(discussion),
                                !.web_searches_total = stats.web_searches]
  /\ mpc' = "synth"
  /\ UNCHANGED <<aux_vars, store_vars, shared_vars, agent_vars, summ_vars,
                 pending_tasks, task, e, faults, late_calls, task_id,
                 iterations, all_idle_count, all_idle>>

\* lines 613, 636-651: _generate_queen_summary is entered; the Summarizer is
\* called with the discussion unless it is empty
RunSynthesis ==
  /\ mpc = "synth"
  /\ results' = [results EXCEPT
                   !.summarized = Len(discussion),
                   !.summary = IF discussion = <<>> THEN "No discussion occurred."
                                                    ELSE "calling"]
  /\ mpc' = "return"
  /\ UNCHANGED <<aux_vars, store_vars, shared_vars, agent_vars, summ_vars,
                 pending_tasks, task, e, faults, late_calls, task_id,
                 iterations, all_idle_count, all_idle>>

\* lines 652-657, 615-623: the synthesis (or the text that replaces it when
\* the Summarizer raised), and the returned dict with len(discussion)
RunReturn ==
  /\ mpc = "return"
  /\ \E text \in {"synthesis", "Unable to generate summary."} :
       results' = [results EXCEPT
                     !.summary = IF @ = "calling" THEN text ELSE @,
                     !.total_contributions = Len(discussion)]
  /\ mpc' = "dumps"
  /\ UNCHANGED <<aux_vars, store_vars, shared_vars, agent_vars, summ_vars,
                 pending_tasks, task, e, faults, late_calls, task_id,
                 iterations, all_idle_count, all_idle>>

\* line 70: json.dumps(results, indent=2) walks the returned dict without
\* the lock; "contributions" (the discussion list itself) comes first ...
TaskDumpContributions ==
  /\ mpc = "dumps"
  /\ results' = [results EXCEPT !.contributions = discussion]
  /\ mpc' = "dumps_stats"
  /\ UNCHANGED <<aux_vars, store_vars, shared_vars, agent_vars, summ_vars,
                 pending_tasks, task, e, faults, late_calls, task_id,
                 iterations, all_idle_count, all_idle>>

\* ... and "statistics" (with the dicts stats["agent_contributions"] and
\* stats["agent_passes"] themselves, lines 598-599) after it
TaskDumpStatistics ==
  /\ mpc = "dumps_stats"
  /\ results' = [results EXCEPT
                   !.contributions_per_agent = stats.agent_contributions,
                   !.passes_per_agent = stats.agent_passes]
  /\ mpc' = "store"
  /\ UNCHANGED <<aux_vars, store_vars, shared_vars, agent_vars, summ_vars,
                 pending_tasks, task, e, faults, late_calls, task_id,
                 iterations, all_idle_count, all_idle>>

\* line 71
TaskStoreResult ==
  /\ mpc = "store"
  /\ \E o \in StorageOutcomes :
       /\ faults' = FaultsAfter(o)
       /\ result' = IF o = "ok" THEN [result EXCEPT ![task] = FinalResult(results)]
                    ELSE result
       /\ mpc' = IF o = "raise" THEN "h_status" ELSE "complete"
       /\ e' = IF o = "raise" THEN "store" ELSE e
  /\ UNCHANGED <<aux_vars, status, description, shared_vars, agent_vars, summ_vars,
                 pending_tasks, task, late_calls, task_id,
                 iterations, all_idle_count, all_idle, results>>

\* line 72
TaskComplete ==
  /\ mpc = "complete"
  /\ \E o \in StorageOutcomes :
       /\ faults' = FaultsAfter(o)
       /\ status' = IF o = "ok" THEN [status EXCEPT ![task] = COMPLETED] ELSE status
       /\ IF o = "raise"
          THEN /\ mpc' = "h_status" /\ e' = "complete"
               /\ UNCHANGED <<task, pending_tasks>>
          ELSE /\ NextTask(pending_tasks)
               /\ UNCHANGED e
  /\ UNCHANGED <<aux_vars, result, description, shared_vars, agent_vars, summ_vars, late_calls, task_id,
                 iterations, all_idle_count, all_idle, results>>

HandlerStatus_Completed == COMPLETED

\* the status that the except branch writes (line 78)
HandlerStatus == FAILED

\* lines 76-78: the except branch marks the task; when this raises too, the
\* exception leaves process_task and run backs off (lines 1297-1301)
TaskFailed ==
  /\ mpc = "h_status"
  /\ \E o \in StorageOutcomes :
       /\ faults' = FaultsAfter(o)
       /\ status' = IF o = "ok" THEN [status EXCEPT ![task] = HandlerStatus] ELSE status
       /\ IF o = "raise"
          THEN /\ mpc' = "poll" /\ task' = NoTask /\ pending_tasks' = <<>> /\ e' = "none"
          ELSE /\ mpc' = "h_result" /\ UNCHANGED <<task, pending_tasks, e>>
  /\ UNCHANGED <<aux_vars, result, description, shared_vars, agent_vars, summ_vars, late_calls, task_id,
                 iterations, all_idle_count, all_idle, results>>

\* lines 79-80
TaskErrorResult ==
  /\ mpc = "h_result"
  /\ \E o \in StorageOutcomes :
       /\ faults' = FaultsAfter(o)
       /\ result' = IF o = "ok" THEN [result EXCEPT ![task] = ErrorResult(e)] ELSE result
       /\ IF o = "raise"
          THEN /\ mpc' = "poll" /\ task' = NoTask /\ pending_tasks' = <<>>
          ELSE NextTask(pending_tasks)
  /\ e' = "none"
  /\ UNCHANGED <<aux_vars, status, description, shared_vars, agent_vars, summ_vars, late_calls, task_id,
                 iterations, all_idle_count, all_idle, results>>

Main ==
  \/ WorkerPoll \/ TaskBegin \/ RunStart \/ RunInitial \/ MonitorSample \/ MonitorEval
  \/ RunStop \/ RunJoin \/ RunFinalStats \/ RunSynthesis \/ RunReturn
  \/ TaskDumpContributions \/ TaskDumpStatistics \/ TaskStoreResult \/ TaskComplete
  \/ TaskFailed \/ TaskErrorResult

Next == Main \/ Summary \/ (\E a \in Agents : Agent(a))

Spec == Init /\ [][Next]_vars

\* ------------------------------------------------ the admission policy alone
\* texts with keywords of the deliberators that take part
PolicyTexts == {{}, {"options"}, {"decide"}}

\* what the entries of a discussion can be: a contribution of a deliberator,
\* its waiting notice, or a search result
Entries == ({"text", "notice"} \X Agents \X PolicyTexts) \cup ({"result"} \X {WebSearcher} \X PolicyTexts)

\* the discussion that a sequence of such appends builds (lines 266-275,
\* 317-326, 426-435)
Built(entries) ==
  [i \in 1..Len(entries) |->
     LET before == SubSeq(entries, 1, i - 1)
         kind == entries[i][1]
         author == entries[i][2]
         text == entries[i][3]
     IN IF kind = "text"
        THEN Contribution(author, text,
                          Cardinality({k \in 1..Len(before) :
                                         before[k][1] = "text" /\ before[k][2] = author}))
        ELSE Hidden(author, text, before)]

\* a run whose monitor loop is sampling, every deliberator at the head of its
\* loop (line 201), with any discussion of up to MaxLen entries and at most
\* MaxPerAgent contributions of each deliberator in it
PolicyInit ==
  /\ \E n \in 0..MaxLen : \E entries \in [1..n -> Entries] :
       /\ discussion = Built(entries)
       /\ \A a \in Agents :
            Cardinality({i \in 1..n : entries[i][1] = "text" /\ entries[i][2] = a})
              <= MaxPerAgent
  /\ contribution_count =
       [a \in Agents |-> Cardinality({i \in 1..Len(discussion) :
                                        discussion[i].agent = a /\ ~discussion[i].hidden})]
  /\ \E input \in PolicyTexts :
       description = [t \in 1..NumTasks |-> [input |-> input, max_rounds |-> MaxRounds]]
  /\ status = [t \in 1..NumTasks |-> IF t = 1 THEN IN_PROGRESS ELSE PENDING]
  /\ agent_status = [n \in Names |-> "idle"]
  /\ result = [t \in 1..NumTasks |->
                 IF t = 1 THEN IntermediateResult(discussion, 0, agent_status) ELSE NoResult]
  /\ stats = [NoStats EXCEPT !.agent_contributions = contribution_count]
  /\ mpc = "monitor"
  /\ pending_tasks = <<>>
  /\ task = 1
  /\ task_id = 1
  /\ e = "none"
  /\ faults = 0
  /\ late_calls = FALSE
  /\ stub = [a \in Agents |-> <<>>]
  /\ iterations = 0
  /\ all_idle_count = 0
  /\ all_idle = FALSE
  /\ results = NoResults
  /\ discussion_lock = "free"
  /\ stop_event = FALSE
  /\ rolling_summary = [content |-> 0, last_update |-> 0]
  /\ web_search_queue = <<>>
  /\ agent_pass_count = [a \in Agents |-> 0]
  /\ pc = [a \in Agents |-> "loop"]
  /\ current_discussion = [a \in Agents |-> <<>>]
  /\ response = [a \in Agents |-> NoResponse]
  /\ next_request = [a \in Agents |-> NoRequest]
  /\ spc = "sleep"
  /\ summary_snapshot = <<>>
  /\ client = "none"
  /\ cooldown_until = 0
  /\ rate_limit_reset = 0
  /\ now = 0
  /\ provider_reset = 0
  /\ tokens = max_tokens
  /\ last_update = 0
  /\ acquire_pc = [c \in Callers |-> "out"]
  /\ workers = [s \in Sessions |-> NoProcess]
  /\ processes = [p \in Pids |-> [session_id |-> 0, state |-> "unused"]]
  /\ call = [op |-> "init", session_id |-> 0]

\* each deliberator takes its snapshot and asks _should_agent_contribute
PolicyNext == \E a \in Agents : AgentLoop(a)

PolicySpec == PolicyInit /\ [][PolicyNext]_vars

\* ---------------------------------- the admission policy, long discussions
\* one relevance keyword of each deliberator (lines 736-743)
KeywordOf ==
  [a \in Deliberators |->
     CASE a = "Divergent"  -> "options"
       [] a = "Convergent" -> "decide"
       [] a = "Critical"   -> "risks"
       [] a = "Pragmatist" -> "practical"
       [] a = "UserProxy"  -> "user"
       [] OTHER            -> "metrics"]

\* the deliberator that is started after a (line 507)
Other(a) ==
  LET i == CHOOSE k \in 1..Len(AgentOrder) : AgentOrder[k] = a
  IN AgentOrder[(i % Len(AgentOrder)) + 1]

\* texts with and without a keyword of a
RuleTexts(a) == {{}, {KeywordOf[a]}}

\* the last entries of a discussion, as a sees them: contributions of a and
\* of another deliberator, waiting notices of a, search results
RuleEntries(a) ==
  ({"text"} \X {a, Other(a)} \X RuleTexts(a))
    \cup ({"notice"} \X {a} \X {{}})
    \cup ({"result"} \X {WebSearcher} \X RuleTexts(a))

\* one contribution of each deliberator of team, in the order of the threads
Opening(team) ==
  LET authors == SelectSeq(AgentOrder, LAMBDA b : b \in team)
  IN [i \in 1..Len(authors) |-> <<"text", authors[i], {}>>]

\* m search results
Filler(m) == [i \in 1..m |-> <<"result", WebSearcher, {}>>]

\* a run of all six deliberators in which asked is at the head of its loop
\* (line 201) and the others are inside a model call
MidRun(asked, d, input) ==
  /\ discussion = d
  /\ contribution_count =
       [a \in Deliberators |->
          Cardinality({i \in 1..Len(discussion) :
                         discussion[i].agent = a /\ ~discussion[i].hidden})]
  /\ description = [t \in 1..NumTasks |-> [input |-> input, max_rounds |-> MaxRounds]]
  /\ status = [t \in 1..NumTasks |-> IF t = 1 THEN IN_PROGRESS ELSE PENDING]
  /\ agent_status = [n \in Deliberators \cup {WebSearcher} |->
                       IF n \in {asked, WebSearcher} THEN "idle" ELSE "thinking"]
  /\ result = [t \in 1..NumTasks |->
                 IF t = 1 THEN IntermediateResult(discussion, 0, agent_status) ELSE NoResult]
  /\ stats = [agent_contributions |-> contribution_count,
              agent_passes |-> [a \in Deliberators |-> 0],
              web_searches |-> Cardinality({i \in 1..Len(discussion) :
                                              discussion[i].agent = WebSearcher})]
  /\ mpc = "monitor"
  /\ pending_tasks = <<>>
  /\ task = 1
  /\ task_id = 1
  /\ e = "none"
  /\ faults = 0
  /\ late_calls = FALSE
  /\ stub = [a \in Deliberators |-> <<>>]
  /\ iterations = 0
  /\ all_idle_count = 0
  /\ all_idle = FALSE
  /\ results = NoResults
  /\ discussion_lock = "free"
  /\ stop_event = FALSE
  /\ rolling_summary = [content |-> 0, last_update |-> 0]
  /\ web_search_queue = <<>>
  /\ agent_pass_count = [a \in Deliberators |-> 0]
  /\ pc = [a \in Deliberators |-> IF a = asked THEN "loop" ELSE "call"]
  /\ current_discussion = [a \in Deliberators |-> <<>>]
  /\ response = [a \in Deliberators |-> NoResponse]
  /\ next_request = [a \in Deliberators |-> NoRequest]
  /\ spc = "sleep"
  /\ summary_snapshot = <<>>
  /\ client = "none"
  /\ cooldown_until = 0
  /\ rate_limit_reset = 0
  /\ now = 0
  /\ provider_reset = 0
  /\ tokens = max_tokens
  /\ last_update = 0
  /\ acquire_pc = [c \in Callers |-> "out"]
  /\ workers = [s \in Sessions |-> NoProcess]
  /\ processes = [p \in Pids |-> [session_id |-> 0, state |-> "unused"]]
  /\ call = [op |-> "init", session_id |-> 0]

\* the discussion is an opening (any of the core roles, with or without the
\* support roles), up to MaxFill search results and up to three last entries;
\* nobody has more than MaxPerAgent contributions in it
RulesInit ==
  \E asked \in Deliberators :
    \E core \in SUBSET core_agents : \E support \in {{}, support_agents} :
      \E m \in 0..MaxFill : \E n \in 0..3 : \E last \in [1..n -> RuleEntries(asked)] :
        \E input \in RuleTexts(asked) :
          /\ MidRun(asked, Built(Opening(core \cup support) \o Filler(m) \o last), input)
          /\ \A a \in Deliberators : contribution_count[a] <= MaxPerAgent

RulesNext == \E a \in Deliberators : AgentLoop(a)

RulesSpec == RulesInit /\ [][RulesNext]_vars

\* --------------------------------------------- OpenRouterClient, RateLimiter
Max(x, y) == IF x >= y THEN x ELSE y

\* RateLimiter.set_cooldown (openrouter.py lines 36-47): instants of the store
\* and of the provider are in milliseconds, the clock and the cooldown in
\* seconds
MsPerSecond == 1000

set_cooldown_Overwrite(until, reset_timestamp_ms) == reset_timestamp_ms \div MsPerSecond

set_cooldown(until, reset_timestamp_ms) == Max(until, reset_timestamp_ms \div MsPerSecond)

\* OpenRouterClient.__init__ (lines 99-115): a new RateLimiter, then the
\* persisted reset instant, if there is one, becomes its cooldown
ClientNew ==
  /\ client' = "ready"
  /\ cooldown_until' = IF rate_limit_reset > 0 THEN set_cooldown(0, rate_limit_reset)
                                               ELSE 0
  /\ UNCHANGED <<engine_vars, manager_vars, rate_limit_reset, now, provider_reset, bucket_vars>>

\* generate, lines 166-204: acquire() returns once the cooldown is over (lines
\* 49-75; a token is assumed to be there), then the request is sent
ClientSend ==
  /\ client = "ready"
  /\ now >= cooldown_until
  /\ client' = "inflight"
  /\ UNCHANGED <<engine_vars, manager_vars, cooldown_until, rate_limit_reset, now,
                 provider_reset, bucket_vars>>

\* lines 205-209: the provider answers with a completion
ClientAnswer ==
  /\ client = "inflight"
  /\ client' = "ready"
  /\ UNCHANGED <<engine_vars, manager_vars, cooldown_until, rate_limit_reset, now,
                 provider_reset, bucket_vars>>

\* lines 210-232: the provider answers with a rate-limit error whose
\* X-RateLimit-Reset header carries a later instant; set_cooldown, then retry
\* or raise
ClientRateLimited ==
  /\ client = "inflight"
  /\ \E reset \in (now + 1)..MaxTime :
       /\ provider_reset' = reset * MsPerSecond
       /\ cooldown_until' = set_cooldown(cooldown_until, reset * MsPerSecond)
  /\ client' = "ready"
  /\ UNCHANGED <<engine_vars, manager_vars, rate_limit_reset, now, bucket_vars>>

\* time passes
Tick ==
  /\ now < MaxTime
  /\ now' = now + 1
  /\ UNCHANGED <<engine_vars, manager_vars, client, cooldown_until, rate_limit_reset,
                 provider_reset, bucket_vars>>

ClientNext == ClientNew \/ ClientSend \/ ClientAnswer \/ ClientRateLimited \/ Tick

ClientSpec == Init /\ [][ClientNext]_vars

\* ------------------------------------------------- RateLimiter.acquire alone
\* line 49: a thread calls acquire()
AcquireCall(c) ==
  /\ acquire_pc[c] = "out"
  /\ acquire_pc' = [acquire_pc EXCEPT ![c] = "try"]
  /\ UNCHANGED <<engine_vars, manager_vars, client, cooldown_until, rate_limit_reset,
                 now, provider_reset, tokens, last_update>>

\* lines 52-71: one pass of the loop under self.lock: in the cooldown nothing
\* happens; otherwise the bucket is refilled and, when it holds a token, one
\* token is taken and acquire returns
AcquireTry(c) ==
  /\ acquire_pc[c] = "try"
  /\ IF now < cooldown_until
     THEN /\ acquire_pc' = [acquire_pc EXCEPT ![c] = "sleep"]
          /\ UNCHANGED <<tokens, last_update>>
     ELSE /\ last_update' = now
          /\ IF Refilled(tokens, last_update, now) >= OneToken
             THEN /\ tokens' = Refilled(tokens, last_update, now) - OneToken
                  /\ acquire_pc' = [acquire_pc EXCEPT ![c] = "out"]
             ELSE /\ tokens' = Refilled(tokens, last_update, now)
                  /\ acquire_pc' = [acquire_pc EXCEPT ![c] = "sleep"]
  /\ UNCHANGED <<engine_vars, manager_vars, client, cooldown_until, rate_limit_reset,
                 now, provider_reset>>

\* line 74: time.sleep(0.1), then the loop again
AcquireSleep(c) ==
  /\ acquire_pc[c] = "sleep"
  /\ acquire_pc' = [acquire_pc EXCEPT ![c] = "try"]
  /\ UNCHANGED <<engine_vars, manager_vars, client, cooldown_until, rate_limit_reset,
                 now, provider_reset, tokens, last_update>>

\* lines 36-47: some thread calls set_cooldown with a reset instant (whole
\* seconds, in milliseconds), earlier or later than the present one
LimiterCooldown ==
  /\ \E reset \in {k * ClockStep : k \in 0..(MaxClock \div ClockStep)} :
       cooldown_until' = set_cooldown(cooldown_until, reset * MsPerSecond)
  /\ UNCHANGED <<engine_vars, manager_vars, client, rate_limit_reset, now,
                 provider_reset, bucket_vars>>

\* time passes
Elapse ==
  /\ now + ClockStep <= MaxClock
  /\ now' = now + ClockStep
  /\ UNCHANGED <<engine_vars, manager_vars, client, cooldown_until, rate_limit_reset,
                 provider_reset, bucket_vars>>

LimiterNext ==
  \/ \E c \in Callers : AcquireCall(c) \/ AcquireTry(c) \/ AcquireSleep(c)
  \/ LimiterCooldown
  \/ Elapse

LimiterSpec == InitWith(ScWorker) /\ [][LimiterNext]_vars

\* ------------------------------------------------- the worker of one session
\* SpecialistWorker.run with WorkerTasks pending tasks.  No model call is
\* answered here, so a deliberator gets as far as its first call; the threads
\* of the process are scheduled fairly.
WorkerNext ==
  \/ Main
  \/ SummaryWake
  \/ \E a \in Agents : AgentStart(a) \/ AgentLoop(a) \/ AgentMarkThinking(a)

WorkerSpec ==
  /\ InitWith(ScWorker)
  /\ [][WorkerNext]_vars
  /\ WF_vars(Main)
  /\ WF_vars(Summary)
  /\ \A a \in Agents : WF_vars(Agent(a))

\* ------------------------------------------------------------ WorkerManager
Tracked_Never(registry, session_id) == FALSE

\* session_id in self.workers (lines 1347, 1370)
Tracked(registry, session_id) == registry[session_id] # NoProcess

\* lines 1341-1362: start_worker
StartWorker(session_id) ==
  /\ call' = [op |-> "start_worker", session_id |-> session_id]
  /\ IF Tracked(workers, session_id)
     THEN UNCHANGED <<workers, processes>>
     ELSE \E pid \in Pids :
            /\ processes[pid].state = "unused"
            /\ \A q \in Pids : q < pid => processes[q].state # "unused"
            /\ processes' = [processes EXCEPT
                               ![pid] = [session_id |-> session_id, state |-> "alive"]]
            /\ workers' = [workers EXCEPT ![session_id] = pid]
  /\ UNCHANGED <<engine_vars, limit_vars>>

\* lines 1376-1383: terminate, join(timeout=5), kill when still alive, del
Stopped(procs, registry, session_id, how) ==
  IF procs[registry[session_id]].state = "alive"
  THEN [procs EXCEPT ![registry[session_id]].state = how]
  ELSE procs

\* lines 1364-1383: stop_worker
StopWorker(session_id) ==
  /\ call' = [op |-> "stop_worker", session_id |-> session_id]
  /\ IF Tracked(workers, session_id)
     THEN /\ \E how \in {"terminated", "killed"} :
               processes' = Stopped(processes, workers, session_id, how)
          /\ workers' = [workers EXCEPT ![session_id] = NoProcess]
     ELSE UNCHANGED <<workers, processes>>
  /\ UNCHANGED <<engine_vars, limit_vars>>

\* lines 1385-1390: stop_all calls stop_worker for every key of the registry
StopAll ==
  /\ call' = [op |-> "stop_all", session_id |-> 0]
  /\ \E how \in [Sessions -> {"terminated", "killed"}] :
       processes' = [p \in Pids |->
                       IF /\ processes[p].state = "alive"
                          /\ \E s \in Sessions : Tracked(workers, s) /\ workers[s] = p
                       THEN [processes[p] EXCEPT !.state = how[processes[p].session_id]]
                       ELSE processes[p]]
  /\ workers' = [s \in Sessions |-> NoProcess]
  /\ UNCHANGED <<engine_vars, limit_vars>>

\* worker_process (lines 1304-1326) returns or dies by itself
ProcessExit(pid) ==
  /\ processes[pid].state = "alive"
  /\ processes' = [processes EXCEPT ![pid].state = "exited"]
  /\ UNCHANGED <<engine_vars, limit_vars, workers, call>>

ManagerNext ==
  \/ \E session_id \in Sessions : StartWorker(session_id)
  \/ \E session_id \in Sessions : StopWorker(session_id)
  \/ StopAll
  \/ \E pid \in Pids : ProcessExit(pid)

ManagerSpec == Init /\ [][ManagerNext]_vars

\* ================================================================ properties
\* the entries of a discussion that are not hidden, in order
NonHidden(d) == SelectSeq(d, LAMBDA c : ~c.hidden)

\* how many non-hidden entries of d were written by author a
NonHiddenBy(d, a) == Cardinality({i \in 1..Len(d) : d[i].agent = a /\ ~d[i].hidden})

IsPrefix(s, t) == Len(s) <= Len(t) /\ SubSeq(t, 1, Len(s)) = s

\* the main thread takes the step
MainStep == mpc' # mpc \/ faults' # faults

\* ------------------------------------------------------------------------ C1
\* C1: a task's status only ever moves PENDING -> IN_PROGRESS -> COMPLETED or
\* PENDING -> IN_PROGRESS -> FAILED; no task leaves COMPLETED or FAILED,
\* skips IN_PROGRESS or returns to PENDING.
C1_StatusTransitions ==
  [][\A t \in Tasks :
       status'[t] # status[t] =>
         \/ status[t] = PENDING /\ status'[t] = IN_PROGRESS
         \/ status[t] = IN_PROGRESS /\ status'[t] \in {COMPLETED, FAILED}]_vars

\* ------------------------------------------------------------------------ C2
\* C2: once a task is COMPLETED its result is the final document and no later
\* write of any thread changes it.
C2_CompletedResultStable ==
  [][\A t \in Tasks :
       status[t] = COMPLETED =>
         /\ result'[t] = result[t]
         /\ result[t].status = "final"]_vars

\* ------------------------------------------------------------------------ C3
\* the main thread leaves the except branch of process_task
LeavesHandler ==
  mpc \in {"h_status", "h_result"} /\ mpc' \notin {"h_status", "h_result"}

C4_AppendOnly ==
  [][mpc # "run" => IsPrefix(discussion, discussion')]_vars

\* a waiting notice, a search result and a contribution are in the sequence
C4_Witness ==
  /\ \E i \in 1..Len(discussion) : discussion[i].hidden /\ discussion[i].agent \in Agents
  /\ \E i \in 1..Len(discussion) : discussion[i].agent = WebSearcher
  /\ \E i \in 1..Len(discussion) : ~discussion[i].hidden
  /\ Len(discussion) >= 4

\* ------------------------------------------------------------------------ C5
\* the deliberators whose thread is inside a WebSearcherAgent.search call
Searching == {a \in Agents : pc[a] \in {"search", "qsearch"}}

\* C5: at most one web search executes at any moment.
C5_OneSearchAtATime == Cardinality(Searching) <= 1

\* ------------------------------------------------------------------------ C6
\* C6: in any run no deliberator is the author of more than 3 non-hidden
\* contributions.
C6_AtMostThree ==
  \A a \in Agents : NonHiddenBy(discussion, a) <= 3

\* a deliberator that has written three contributions took a snapshot that
\* holds them and was refused
C6_Witness ==
  \E a \in Agents :
    /\ NonHiddenBy(discussion, a) = 3
    /\ NonHiddenBy(current_discussion[a], a) = 3
    /\ contribution_count[a] = 3
    /\ pc[a] = "idle"

\* ------------------------------------------------------------------------ C7
\* C7: after removing the hidden entries no two adjacent contributions of the
\* discussion have the same author.
C7_NoAdjacentSameAuthor ==
  \A i \in 1..(Len(NonHidden(discussion)) - 1) :
    NonHidden(discussion)[i].agent # NonHidden(discussion)[i + 1].agent

\* ------------------------------------------------------------------------ C8
\* the final documents of the tasks that are COMPLETED
Completed == {t \in Tasks : status[t] = COMPLETED /\ result[t].status = "final"}

\* C8: when a run has completed, total_contributions of the final result is
\* the number of non-hidden entries of its contributions (checked for the
\* runs in which every worker ends before its join times out).
C8_TotalIsNonHidden ==
  \A t \in Completed :
    ~late_calls =>
      result[t].total_contributions = Len(NonHidden(result[t].contributions))

\* ------------------------------------------------------------------------ C9
\* C9: when a run has completed, each value of statistics.contributions_per_agent
\* is the number of non-hidden contributions of that agent in the final result
\* (and so the values sum to the number of non-hidden contributions).
C9_PerAgentCounts ==
  \A t \in Completed :
    \A a \in Agents :
      result[t].statistics.contributions_per_agent[a]
        = NonHiddenBy(result[t].contributions, a)

\* ----------------------------------------------------------------------- C10
\* C10: once a pass has set stop_event (every pass counter >= 1, at least two
\* entries), the main thread leaves the monitor loop at its next sample,
\* without waiting for the idle-dwell count or the hard cap.
C10_StopsAtNextSample ==
  [][(/\ mpc = "monitor" /\ stop_event
      /\ \A a \in Agents : agent_pass_count[a] >= 1
      /\ Len(discussion) >= 2
      /\ mpc' # mpc) => mpc' = "stop"]_vars

C12_NumIsPosition ==
  \A i \in 1..Len(discussion) : discussion[i].contribution_num = i

\* ----------------------------------------------------------------------- C13
\* a deliberator is about to run a search, or its script still holds a
\* search request
SearchToCome ==
  \E a \in Agents :
    \/ pc[a] \in {"chk", "begin"}
    \/ \E i \in 1..Len(stub[a]) : \E r \in stub[a][i] : r.kind = "search"

\* C13: a queued request is processed while the discussion is not stopped:
\* as long as a request is queued a search is executing, whose end drains the
\* queue, or another search is still to come.
C13_QueuedIsServed ==
  (web_search_queue # <<>> /\ ~stop_event) => (Searching # {} \/ SearchToCome)

\* ----------------------------------------------------------------------- C14
\* C14: queued requests are processed in FIFO order: the queue changes only
\* by a request joining at its tail or by the search of its head starting.
C14_Fifo ==
  [][(web_search_queue' # web_search_queue /\ mpc # "run") =>
       \/ \E a \in Agents :
            web_search_queue' =
              Append(web_search_queue, [agent |-> a, query |-> response[a].text])
       \/ /\ web_search_queue # <<>>
          /\ web_search_queue' = Tail(web_search_queue)
          /\ \E a \in Agents :
               /\ pc[a] # "qsearch" /\ pc'[a] = "qsearch"
               /\ next_request'[a] = Head(web_search_queue)]_vars

\* two different requests were queued and the search of the older one runs
C14_Witness ==
  \E a \in Agents :
    /\ pc[a] = "qsearch"
    /\ next_request[a] = [agent |-> "Convergent", query |-> {"data"}]
    /\ web_search_queue = <<[agent |-> "Convergent", query |-> {"metrics"}]>>

\* ----------------------------------------------------------------------- C15
\* C15: when every deliberator answers PASS on every turn the run is ended
\* by the all-agents-passed rule and not by the hard cap: when the main
\* thread leaves the monitor loop of such a run, a pass has set stop_event.
C15_AllPassStops ==
  (/\ mpc = "stop"
   /\ description[task_id].max_rounds > 0
   /\ discussion = <<>>
   /\ \A a \in Agents : agent_pass_count[a] >= 1) => stop_event

\* ----------------------------------------------------------------------- C16
\* C16: the reset instant of a rate-limit error is persisted, so that no
\* client, also one constructed afterwards, sends a request before it.
C16_NoRequestBeforeReset ==
  [][(client = "ready" /\ client' = "inflight") => now * MsPerSecond >= provider_reset]_vars

\* a list of tasks in the order of their creation
InOrder(list) == \A i, j \in 1..Len(list) : i < j => list[i] < list[j]

\* ----------------------------------------------------------------------- C17
\* C17: the worker takes the pending tasks one at a time in creation order
\* (a new current task is taken at a poll or after the previous one was
\* finished, it is older than the rest of the fetched list, and at a poll no
\* older task is pending), and whatever exceptions are raised, every task
\* that is PENDING eventually becomes the current task.
C17_InOrderAndEventually ==
  /\ [][(task' # task /\ task' # NoTask) =>
          /\ mpc \in {"poll", "complete", "h_result"}
          /\ InOrder(pending_tasks')
          /\ \A i \in 1..Len(pending_tasks') : task' < pending_tasks'[i]
          /\ mpc = "poll" => \A u \in Tasks : u < task' => status[u] # PENDING]_vars
  /\ \A t \in 1..WorkerTasks : (status[t] = PENDING) ~> (task = t)

\* an exception has left process_task for the first task (the except branch
\* raised as well) and the worker is back at its poll with the second task
\* pending
C17_Witness ==
  /\ mpc = "poll" /\ task_id = 1 /\ task = NoTask
  /\ status[1] = IN_PROGRESS /\ status[2] = PENDING
  /\ faults = 0

\* ----------------------------------------------------------------------- C19
\* every deliberator that has entered its status is idle (and one has)
DeliberatorsIdle(st) ==
  /\ \E a \in Agents : st[a] # "absent"
  /\ \A a \in Agents : st[a] \in {"absent", "idle"}

AliveOf(session_id) ==
  {p \in Pids : processes[p].session_id = session_id /\ processes[p].state = "alive"}

\* C18: at most one worker process per session is alive, and it is the one
\* in the registry; start_worker for a tracked session changes nothing;
\* stop_worker removes the session, leaves its process terminated, killed or
\* exited, and changes nothing for an untracked session; stop_all leaves the
\* registry empty.
C18_OneWorkerPerSession ==
  [][/\ \A s \in Sessions :
          /\ Cardinality(AliveOf(s)') <= 1
          /\ \A p \in AliveOf(s)' : workers'[s] = p
     /\ (call' # call /\ call'.op = "start_worker") =>
          /\ workers[call'.session_id] # NoProcess => UNCHANGED <<workers, processes>>
          /\ workers'[call'.session_id] # NoProcess
     /\ (call' # call /\ call'.op = "stop_worker") =>
          /\ workers'[call'.session_id] = NoProcess
          /\ \A p \in Pids : processes'[p].session_id = call'.session_id =>
                                 processes'[p].state # "alive"
          /\ workers[call'.session_id] = NoProcess => UNCHANGED <<workers, processes>>
     /\ (call' # call /\ call'.op = "stop_all") =>
          /\ \A s \in Sessions : workers'[s] = NoProcess
          /\ \A s \in Sessions : AliveOf(s)' = {}]_vars

\* a session was stopped by kill and started again while the other session's
\* worker runs
C18_Witness ==
  /\ \E p \in Pids : processes[p].state = "killed" /\ processes[p].session_id = 1
  /\ AliveOf(1) # {} /\ AliveOf(2) # {}
  /\ call = [op |-> "start_worker", session_id |-> 1]

\* ----------------------------------------------------------------------- C20
\* the keywords that occur in the entries of d after the first Len(d) - 3
RecentWords(d) == UNION {d[i].content : i \in {k \in 1..Len(d) : k > Len(d) - 3}}

\* C20: a deliberator that has not contributed yet is admitted when the
\* discussion has fewer than 2 entries, and otherwise exactly when one of
\* its relevance keywords occurs in the user input or in the last three
\* entries, whoever wrote the last entry and however long the discussion is.
C20_FirstContribution ==
  [][\A a \in Agents :
       (pc[a] = "loop" /\ pc'[a] # "loop" /\ ~stop_event /\ contribution_count[a] = 0) =>
         /\ pc'[a] \in {"mark", "idle"}
         /\ pc'[a] = "mark" <=>
              \/ Len(discussion) < 2
              \/ relevance_keywords[a] \cap description[task_id].input # {}
              \/ relevance_keywords[a] \cap RecentWords(discussion) # {}]_vars

\* admitted on a keyword of the last three entries alone, although the last
\* entry is the deliberator's own (a waiting notice)
C20_Witness ==
  \E a \in Agents :
    /\ pc[a] = "mark" /\ contribution_count[a] = 0
    /\ Len(current_discussion[a]) = 4
    /\ current_discussion[a][4].agent = a
    /\ relevance_keywords[a] \cap description[task_id].input = {}
    /\ relevance_keywords[a] \cap current_discussion[a][2].content # {}
    /\ relevance_keywords[a] \cap current_discussion[a][1].content = {}

\* ---------------------------------------------------------- C21 .. C24
\* deliberator a takes its admission decision in this step
Decides(a) == pc[a] = "loop" /\ pc'[a] \in {"mark", "idle"} /\ ~stop_event

\* the most recent non-hidden entry of d was written by a
LastVisibleBy(d, a) ==
  LET visible == NonHidden(d)
  IN visible # <<>> /\ visible[Len(visible)].agent = a

\* how many of the last three entries of d were written by a
TimesInLast3(d, a) == Cardinality({k \in 1..Len(d) : k > Len(d) - 3 /\ d[k].agent = a})

\* a with n contributions is not rejected by the back-to-back, dominance and
\* hard-cap rules
PassesEarlierRules(a, d, n) ==
  /\ d # <<>> => d[Len(d)].agent # a
  /\ Len(d) >= 3 => TimesInLast3(d, a) < 2
  /\ n < 3

\* a keyword of a occurs in the user input or in the last three entries
Relevant(a, d, input) ==
  \/ relevance_keywords[a] \cap input # {}
  \/ relevance_keywords[a] \cap RecentWords(d) # {}

\* C21: a deliberator that has contributed is rejected whenever the most
\* recent non-hidden entry is its own, also with hidden entries after it.
C21_RejectsAfterOwn ==
  [][\A a \in Agents :
       (Decides(a) /\ contribution_count[a] >= 1 /\ LastVisibleBy(discussion, a)) =>
         pc'[a] = "idle"]_vars

\* C22: with 1 or 2 contributions, fewer than 6 entries and no rejection by
\* the earlier rules, a deliberator is admitted exactly when it is a core
\* role and not all three core roles have appeared, or it is a support role
\* that has not appeared and the discussion has at least 2 entries.
C22_EarlyPhase ==
  [][\A a \in Deliberators :
       (/\ Decides(a) /\ contribution_count[a] \in {1, 2}
        /\ PassesEarlierRules(a, discussion, contribution_count[a])
        /\ ~LastVisibleBy(discussion, a)
        /\ Len(discussion) < 6) =>
         (pc'[a] = "mark" <=>
            \/ a \in core_agents /\ ~(core_agents \subseteq AuthorsOf(discussion))
            \/ /\ a \in support_agents /\ a \notin AuthorsOf(discussion)
               /\ Len(discussion) >= 2)]_vars

C24_SecondContribution ==
  [][\A a \in Deliberators :
       (/\ Decides(a) /\ contribution_count[a] = 1
        /\ Cardinality({i \in 1..Len(discussion) : discussion[i].agent # a}) >= 6
        /\ discussion[Len(discussion)].agent # a
        /\ TimesInLast3(discussion, a) < 2) =>
         pc'[a] = "mark"]_vars

\* ----------------------------------------------------------------------- C25
\* deliberator a is handling a response that begins with PASS or [PASS
HandlesPass(a) ==
  /\ response[a].kind \in {"pass", "bare"}
  /\ pc[a] \in {"pass", "contributing", "append", "reset"}

\* C25: while a deliberator handles a response that begins with PASS or
\* [PASS no entry of its own is appended, and when it has handled it its pass
\* counter is one higher.
C25_PassIsNoContribution ==
  [][\A a \in Agents :
       HandlesPass(a) =>
         /\ Len(discussion') > Len(discussion) => discussion'[Len(discussion')].agent # a
         /\ pc'[a] \notin {"pass", "contributing", "append", "reset"} =>
              agent_pass_count'[a] = agent_pass_count[a] + 1]_vars

\* ----------------------------------------------------------------------- C26
\* C26: a response of which nothing is left after the cleanup adds one to
\* the deliberator's pass counter (the one of the all-agents-passed rule).
C26_ToolSyntaxIsPass ==
  [][\A a \in Agents :
       (response[a].kind = "tool" /\ pc[a] \in {"tool_idle", "tool_pass"}
        /\ pc'[a] \notin {"tool_idle", "tool_pass"}) =>
         agent_pass_count'[a] = agent_pass_count[a] + 1]_vars

\* ----------------------------------------------------------------------- C27
\* C27: a request is in web_search_queue only while the WebSearcher is
\* searching, or a worker is in a search or about to start one.
C27_NoStrandedRequest ==
  web_search_queue # <<>> =>
    \/ agent_status[WebSearcher] = "searching"
    \/ \E a \in Agents : pc[a] \in {"begin", "search", "qsearch"}

\* ----------------------------------------------------------------------- C28
\* C28: once the main thread has handed the discussion to the final synthesis
\* no entry is appended to it, and the contributions stored in a final result
\* are as many as statistics.total_messages counted.
SynthesisStarted == mpc \in {"return", "dumps", "dumps_stats", "store"}

C28_NoAppendAfterSynthesis ==
  [][/\ SynthesisStarted => discussion' = discussion
     /\ \A t \in Tasks :
          result'[t].status = "final" =>
            Len(result'[t].contributions) = result'[t].statistics.total_messages]_vars

\* ----------------------------------------------------------------------- C29
\* C29: the contributions of the snapshots written to a task's result during
\* one run never shrink: each in-progress snapshot has the contributions of
\* the snapshot it replaces as a prefix, the initial snapshot included.
C29_SnapshotsGrow ==
  [][\A t \in Tasks :
       (result[t].status = "in_progress" /\ result'[t].status = "in_progress") =>
         IsPrefix(result[t].contributions, result'[t].contributions)]_vars

\* ----------------------------------------------------------------------- C30
\* C30: while a worker handles a response that is a search request (searching
\* at once, or enqueueing and posting the waiting notice) it stays on the
\* search path, and its contribution count, its pass counter and its entries
\* of the contributions_per_agent and passes_per_agent statistics do not change.
\* (The start of the next run creates new worker threads with new counters;
\* that step is none of the worker's.)
SearchPath == {"chk", "enq", "notice", "begin", "search", "qsearch", "unl_idle"}

HandlesResponse(a) == pc[a] \notin {"start", "loop", "mark", "call", "idle", "done"}

C30_SearchIsNeither ==
  [][\A a \in Agents :
       (HandlesResponse(a) /\ response[a].kind = "search" /\ pc'[a] # "start") =>
         /\ pc[a] \in SearchPath
         /\ pc'[a] \in SearchPath \cup {"loop"}
         /\ contribution_count'[a] = contribution_count[a]
         /\ agent_pass_count'[a] = agent_pass_count[a]
         /\ stats'.agent_contributions[a] = stats.agent_contributions[a]
         /\ stats'.agent_passes[a] = stats.agent_passes[a]]_vars

\* a worker has searched at once and is about to go idle, and another
\* worker's request was enqueued and got the waiting notice
C30_Witness ==
  \E a, b \in Agents :
    /\ pc[a] = "unl_idle" /\ response[a].kind = "search"
    /\ agent_status[b] = "waiting"

\* ----------------------------------------------------------------------- C31
\* C31: a worker whose search request finds the WebSearcher searching appends
\* the request to web_search_queue, then appends one hidden waiting notice
\* under its own name to the discussion, starts no search itself and goes
\* back to its loop.
StepOf(a) == pc'[a] # pc[a] /\ pc'[a] # "start"

C31_EnqueueAndNotice ==
  [][\A a \in Agents :
       /\ (StepOf(a) /\ pc[a] = "chk" /\ agent_status[WebSearcher] = "searching") =>
            pc'[a] = "enq"
       /\ (StepOf(a) /\ pc[a] = "enq") =>
            /\ web_search_queue' =
                 Append(web_search_queue, [agent |-> a, query |-> response[a].text])
            /\ discussion' = discussion
            /\ pc'[a] = "notice"
       /\ (StepOf(a) /\ pc[a] = "notice") =>
            /\ Len(discussion') = Len(discussion) + 1
            /\ SubSeq(discussion', 1, Len(discussion)) = discussion
            /\ discussion'[Len(discussion')].agent = a
            /\ discussion'[Len(discussion')].hidden
            /\ web_search_queue' = web_search_queue
            /\ pc'[a] = "loop"
       /\ (StepOf(a) /\ pc[a] \in {"chk", "enq", "notice"} /\ pc'[a] # "begin") =>
            /\ stats'.web_searches = stats.web_searches
            /\ agent_status'[WebSearcher] = agent_status[WebSearcher]]_vars

\* a worker is back at its loop with its request queued and its notice the
\* last entry of the discussion
C31_Witness ==
  \E a \in Agents :
    /\ pc[a] = "loop" /\ agent_status[a] = "waiting"
    /\ web_search_queue # <<>> /\ Head(web_search_queue).agent = a
    /\ discussion # <<>>
    /\ discussion[Len(discussion)].agent = a /\ discussion[Len(discussion)].hidden

\* ----------------------------------------------------------------------- C32
\* C32: once stop_event is set no queued request is taken from
\* web_search_queue and searched.
C32_QueueDiscardedOnStop ==
  [][(stop_event /\ stop_event') =>
       ~(/\ Len(web_search_queue') < Len(web_search_queue)
         /\ stats'.web_searches > stats.web_searches)]_vars

\* ----------------------------------------------------------------------- C33
\* C33: the shared discussion state is written only by the thread that holds
\* discussion_lock: while a worker keeps the lock, no step (which is then
\* another thread's) changes the discussion, agent_status, web_search_queue,
\* the rolling summary, the pass counters or the statistics.
C33_WritesUnderLock ==
  [][\A a \in Agents :
       (discussion_lock = a /\ discussion_lock' = a) =>
         UNCHANGED <<discussion, agent_status, web_search_queue, rolling_summary,
                     agent_pass_count, stats>>]_vars

\* ----------------------------------------------------------------------- C34
\* C34: no worker is inside a model call or a web search while it holds
\* discussion_lock.
C34_NoCallUnderLock ==
  \A a \in Agents :
    pc[a] \in {"call", "search", "qsearch"} => discussion_lock # a

\* ----------------------------------------------------------------------- C35
\* C35: a deliberator whose model call is in flight has the status "thinking".
C35_ThinkingDuringCall ==
  \A a \in Agents : pc[a] = "call" => agent_status[a] = "thinking"

\* ----------------------------------------------------------------------- C36
\* C36: the summary thread calls the Summarizer only with a snapshot that is
\* not empty and whose length differs from rolling_summary.last_update; when
\* the call succeeds the summary and last_update are set together to that
\* snapshot's length; during a run last_update never decreases and is never
\* more than the length of the discussion.
NewRun == mpc = "run" /\ mpc' = "initial"

C36_SummaryOnlyWhenChanged ==
  [][~NewRun =>
       /\ (spc # "call" /\ spc' = "call") =>
            /\ Len(discussion) > 0
            /\ Len(discussion) # rolling_summary.last_update
            /\ summary_snapshot' = discussion
       /\ rolling_summary' # rolling_summary =>
            /\ spc = "call"
            /\ rolling_summary'.content = Len(summary_snapshot)
            /\ rolling_summary'.last_update = Len(summary_snapshot)
       /\ rolling_summary'.last_update >= rolling_summary.last_update
       /\ rolling_summary'.last_update <= Len(discussion')]_vars

\* a summary of one entry is stored and the discussion has grown since
C36_Witness ==
  /\ rolling_summary.last_update >= 1
  /\ rolling_summary.content = rolling_summary.last_update
  /\ Len(discussion) > rolling_summary.last_update

\* ----------------------------------------------------------------------- C37
\* C37: when the Summarizer call of the summary thread ends without a new
\* summary (it raised), nothing but the thread's own position changes: the
\* rolling summary and last_update, the workers, the main thread and the
\* stored task are as before, and the thread is at its loop test again.  A
\* task is FAILED only in a behaviour in which a storage call has failed.
SummaryFailed ==
  spc = "call" /\ spc' # "call" /\ rolling_summary' = rolling_summary /\ ~NewRun

C37_SummaryErrorSuppressed ==
  [][/\ SummaryFailed =>
          /\ spc' = AfterLoopTest
          /\ UNCHANGED <<store_vars, main_vars, shared_vars, agent_vars>>
     /\ \A t \in Tasks : status'[t] = FAILED => faults' < MaxFaults]_vars

\* the Summarizer is called a second time, with a summary already stored,
\* while a deliberator's model call is in flight
C37_Witness ==
  /\ spc = "call" /\ ~stop_event
  /\ rolling_summary.last_update >= 1
  /\ \E a \in Agents : pc[a] = "call"

\* ----------------------------------------------------------------------- C38
\* C38: a model call that raised is handled as a pass: the worker appends
\* nothing, adds one to its pass counter and to its passes statistic and goes
\* on to the end of its turn (or leaves the loop when this pass makes the
\* all-agents-passed rule true); the main thread and the stored task are not
\* touched.
C38_ErrorIsPass ==
  [][\A a \in Agents :
       (HandlesResponse(a) /\ response[a].kind = "error" /\ StepOf(a)) =>
         /\ pc[a] = "pass"
         /\ discussion' = discussion
         /\ contribution_count'[a] = contribution_count[a]
         /\ agent_pass_count'[a] = agent_pass_count[a] + 1
         /\ stats'.agent_passes[a] = stats.agent_passes[a] + 1
         /\ \/ pc'[a] = "idle" /\ stop_event' = stop_event
            \/ /\ pc'[a] = "done" /\ stop_event'
               /\ AllPassed(agent_status, agent_pass_count', discussion)
         /\ UNCHANGED <<store_vars, main_vars>>]_vars

\* a worker that has contributed is at its loop again after a call that
\* raised, with the pass counted
C38_Witness ==
  \E a \in Agents :
    /\ response[a].kind = "error" /\ pc[a] = "loop"
    /\ agent_pass_count[a] = 1 /\ contribution_count[a] = 1
    /\ ~stop_event

\* ----------------------------------------------------------------------- C39
\* C39: acquire returns only at an instant that is not before cooldown_until
\* and at which the bucket holds a token, and the return takes exactly one
\* token; no other step lowers the bucket; cooldown_until never moves back;
\* the bucket level is between 0 and requests_per_minute tokens.
Level == Refilled(tokens, last_update, now)

Returns(c) == acquire_pc[c] = "try" /\ acquire_pc'[c] = "out"

C39_AcquireTakesOneToken ==
  [][/\ \A c \in Callers :
          Returns(c) =>
            /\ now >= cooldown_until
            /\ Level >= OneToken
            /\ Level' = Level - OneToken
     /\ (\A c \in Callers : ~Returns(c)) => Level' >= Level
     /\ cooldown_until' >= cooldown_until
     /\ tokens' >= 0 /\ tokens' <= max_tokens
     /\ Level' >= 0 /\ Level' <= max_tokens]_vars

\* the bucket was emptied and has refilled to a token that a waiting caller
\* can take, after a cooldown that has ended
C39_Witness ==
  \E c \in Callers :
    /\ acquire_pc[c] = "try"
    /\ tokens < OneToken /\ Level >= OneToken
    /\ cooldown_until > 0 /\ now >= cooldown_until

\* ----------------------------------------------------------------------- C40
\* C40: a deliberator that has contributed before never appends a non-hidden
\* entry to a discussion whose last entry, hidden or not, is its own.
C40_NeverAfterItself ==
  [][\A a \in Agents :
       (/\ Len(discussion') = Len(discussion) + 1
        /\ discussion'[Len(discussion')].agent = a
        /\ ~discussion'[Len(discussion')].hidden
        /\ contribution_count[a] >= 1) =>
         /\ discussion # <<>>
         /\ discussion[Len(discussion)].agent # a]_vars

\* a deliberator's second contribution is the last entry, and an entry that
\* is not its own stands before it
C40_Witness ==
  \E a \in Agents :
    /\ contribution_count[a] >= 2
    /\ Len(discussion) >= 3
    /\ discussion[Len(discussion)].agent = a /\ ~discussion[Len(discussion)].hidden
    /\ discussion[Len(discussion) - 1].agent # a

====
